---- MODULE Spec2Model ----
(***************************************************************************)
(* Credential and request layer of google-maps-cli: the account registry   *)
(* (utils.py), the credential store and resolver (auth.py) and the         *)
(* request executor (api.py).                                              *)
(***************************************************************************)
EXTENDS Integers, Sequences, FiniteSets, TLC

\* ------------------------------------------------------------- universe

\* Account names a user can type; save_api_key's fallback name is "default".
Names == {"default", "work"}

\* Python's None where an account name, a path or a string is expected.
None == "None"

\* The file used when neither an explicit nor a default account exists.
Legacy == "legacy"

Paths == Names \cup {Legacy}

\* Static keys a user can enter; "" is the empty input authenticate rejects.
Keys == {"K1", "K2"}

\* Number of access tokens the token endpoint hands out in one run.
MaxTokens == 2

\* A file that does not exist / one whose content does not parse.
NoFile == "absent"
Corrupt == "corrupt"

VARIABLES
    accountsFile,   \* ~/.google_maps_accounts.json
    keyFiles,       \* path -> content of the static-key document
    tokenFiles,     \* path -> content of the token document
    modes,          \* kind of document -> path -> permissions of the file
    expiredTokens,  \* access tokens whose expiry time has passed
    issued,         \* number of access tokens handed out so far
    api,            \* the MapsAPI client of the running command
    request,        \* the last _make_request of that client
    run,            \* the search_places / nearby_search call of that client
    writer,         \* processes inside set_default_account
    reader          \* a process listing the accounts (cli.accounts)

vars == <<accountsFile, keyFiles, tokenFiles, modes, expiredTokens, issued, api,
          request, run, writer, reader>>

\* The pagination run of the client, and the processes racing on the registry.
paging == <<run>>
racing == <<writer, reader>>

stored == <<accountsFile, keyFiles, tokenFiles>>

\* ------------------------------------------------------- Python values

\* A Python value a credential lookup can return: None, a str, or a
\* google.oauth2 Credentials object (access token, has-refresh-token).
PyNone == [kind |-> "none", s |-> "", token |-> 0, refresh_token |-> FALSE]
PyStr(k) == [kind |-> "str", s |-> k, token |-> 0, refresh_token |-> FALSE]
PyCreds(t, r) == [kind |-> "creds", s |-> "", token |-> t, refresh_token |-> r]

\* bool(v): None and "" are falsy, objects and non-empty strings truthy.
Truthy(v) == v.kind = "creds" \/ (v.kind = "str" /\ v.s # "")

\* Credentials.expired and Credentials.valid, read at the current time.
expired(c) == c.token \in expiredTokens
valid(c) == c.kind = "creds" /\ ~expired(c)

\* dict.get(k, d) on a JSON object held as a function.
Get(d, k, dflt) == IF k \in DOMAIN d THEN d[k] ELSE dflt

EmptyDict == [k \in {} |-> None]

\* ------------------------------------------------------------ utils.py

\* The registry file: exists or not, and the JSON object it holds.
\* The registry file: whether it exists, whether json.load accepts its
\* content, and the document it then holds.
NoAccountsFile == [exists |-> FALSE, json |-> FALSE, doc |-> EmptyDict]

\* The file between open(path, "w") and the end of json.dump: empty.
TruncatedFile == [exists |-> TRUE, json |-> FALSE, doc |-> EmptyDict]

get_default_account_of(f) ==
    IF f.exists /\ f.json THEN Get(f.doc, "default_account", None) ELSE None

get_default_account == get_default_account_of(accountsFile)

list_accounts_of(f) ==
    IF f.exists /\ f.json THEN Get(f.doc, "accounts", <<>>) ELSE <<>>

list_accounts == list_accounts_of(accountsFile)

InSeq(x, s) == \E i \in 1..Len(s) : s[i] = x

\* A registration that sets the pointer but forgets to append the name.
set_default_account_noappend(f, account_name) ==
    [exists |-> TRUE, json |-> TRUE,
     doc |-> ("default_account" :> account_name)
             @@ ("accounts" :> list_accounts_of(f))]

\* A registration that appends the name whether or not it is known.
set_default_account_always_append(f, account_name) ==
    [exists |-> TRUE, json |-> TRUE,
     doc |-> ("default_account" :> account_name)
             @@ ("accounts" :> Append(list_accounts_of(f), account_name))]

\* A registration that moves a known name to the end of the list.
set_default_account_move_last(f, account_name) ==
    [exists |-> TRUE, json |-> TRUE,
     doc |-> ("default_account" :> account_name)
             @@ ("accounts" :>
                    Append(SelectSeq(list_accounts_of(f),
                                     LAMBDA x : x # account_name),
                           account_name))]

\* The registry file set_default_account(account_name) leaves behind.
set_default_account(f, account_name) ==
    LET config == IF f.exists /\ f.json THEN f.doc ELSE EmptyDict
        c1 == ("default_account" :> account_name) @@ config
        c2 == IF "accounts" \notin DOMAIN c1
              THEN ("accounts" :> <<>>) @@ c1 ELSE c1
        c3 == IF ~InSeq(account_name, c2["accounts"])
              THEN ("accounts" :> Append(c2["accounts"], account_name)) @@ c2
              ELSE c2
    IN  [exists |-> TRUE, json |-> TRUE, doc |-> c3]

\* A selection that falls back to the default for an unregistered name.
select_registered_only(f, account) ==
    IF account # None /\ InSeq(account, list_accounts_of(f))
    THEN account ELSE get_default_account_of(f)

\* `if account is None: account = get_default_account()`, with the registry
\* file f the call would read.
select(f, account) ==
    IF account = None THEN get_default_account_of(f) ELSE account

\* `if account:` picks the per-account document, else the legacy one.
path_of(a) == IF a # None /\ a # "" THEN a ELSE Legacy

get_api_key_path(account) == path_of(select(accountsFile, account))

\* Token documents are kept per account, like the key documents.
get_token_path(account) == path_of(select(accountsFile, account))

\* Permissions of a credential file: there is no file, the file has the
\* mode open() created it with (the process umask decides), or 0o600.
NoMode == "none"
UmaskMode == "umask"
OwnerOnly == "600"

\* open(path, "w"): creates the file if there is none, keeps its mode if
\* there is one.
opened(m) == IF m = NoMode THEN UmaskMode ELSE m

\* A tightening that does nothing.
ensure_token_permissions_skipped(m) == m

\* if token_path.exists(): os.chmod(token_path, 0o600)
ensure_token_permissions(m) == IF m # NoMode THEN OwnerOnly ELSE m

\* len(name) of an account name.
NameLen(n) == IF n = "default" THEN 7 ELSE 4

RECURSIVE ItemsLen(_)
\* Characters the items of the accounts list take in the dumped text.
ItemsLen(s) == IF s = <<>> THEN 0 ELSE NameLen(Head(s)) + 8 + ItemsLen(Tail(s))

\* Number of characters in the file. json.dump(config, f, indent=2) writes
\* "{}" for an empty object and otherwise one line per key and per item; a
\* file json.load rejects keeps in `doc` the document its length comes from.
size(f) ==
    IF ~f.exists THEN 0
    ELSE IF f.doc = EmptyDict THEN (IF f.json THEN 2 ELSE 0)
    ELSE 47 + NameLen(f.doc["default_account"]) + ItemsLen(f.doc["accounts"])

\* The file after `new` is written from position 0 by a process that opened
\* it for writing earlier: where another process wrote a longer text in
\* between, the end of that text stays behind the new one and json.load
\* rejects the file ("Extra data").
overwrite(f, new) ==
    IF size(new) >= size(f) THEN new
    ELSE [exists |-> TRUE, json |-> FALSE, doc |-> f.doc]

\* Processes that run set_default_account at the same time, and where each
\* one is: it has loaded the document, then opened it for writing (which
\* empties it), then dumped its own copy.
Writers == {"w1", "w2"}
IdleWriter == [pc |-> "idle", name |-> None, loaded |-> NoAccountsFile]

\* cli.accounts: list_accounts(), then get_default_account().
IdleReader == [pc |-> "start", accounts |-> <<>>, default |-> None]

\* ------------------------------------------------------------- auth.py

\* google-auth and google-auth-oauthlib are install requirements.
OAUTH_AVAILABLE == TRUE

NoTokenFile == [st |-> NoFile, token |-> 0, refresh_token |-> FALSE]
TokenDoc(t, r) == [st |-> "ok", token |-> t, refresh_token |-> r]

\* What a resolution has touched so far: the token documents as they are
\* being rewritten, and counters of the lookups it has performed.
Heap0 == [tokenFiles |-> tokenFiles, refreshes |-> 0, tokenLoads |-> 0,
          keyReads |-> 0, minted |-> 0]

Ret(v, h) == [ret |-> v, h |-> h]

\* A reader that hands back whatever the key document holds.
get_api_key_unchecked(account, h) ==
    Ret(IF keyFiles[get_api_key_path(account)] = NoFile THEN PyNone
        ELSE PyStr(keyFiles[get_api_key_path(account)]),
        [h EXCEPT !.keyReads = @ + 1])

get_api_key(account, h) ==
    LET doc == keyFiles[get_api_key_path(account)]
        h1 == [h EXCEPT !.keyReads = @ + 1]
    IN  IF doc = NoFile THEN Ret(PyNone, h1)
        ELSE IF doc = Corrupt THEN Ret(PyNone, h1)
        ELSE Ret(PyStr(doc), h1)

\* A loader that hands back whatever it loaded and never refreshes.
get_oauth_credentials_norefresh(account, h, oracle) ==
    LET doc == h.tokenFiles[get_token_path(account)]
        h1 == [h EXCEPT !.tokenLoads = @ + 1]
    IN  Ret(IF doc.st = "ok" THEN PyCreds(doc.token, doc.refresh_token)
            ELSE PyNone, h1)

\* oracle[k] tells whether the k-th refresh call of this resolution succeeds.
get_oauth_credentials(account, h, oracle) ==
    IF ~OAUTH_AVAILABLE THEN Ret(PyNone, h)
    ELSE
    LET token_path == get_token_path(account)
        doc == h.tokenFiles[token_path]
        h1 == [h EXCEPT !.tokenLoads = @ + 1]
        creds == IF doc.st = "ok" THEN PyCreds(doc.token, doc.refresh_token)
                 ELSE PyNone
    IN  IF (~Truthy(creds) \/ ~valid(creds))
           /\ Truthy(creds) /\ expired(creds) /\ creds.refresh_token
        THEN LET k == h1.refreshes + 1
                 h2 == [h1 EXCEPT !.refreshes = k]
                 fresh == issued + h1.minted + 1
             IN  IF oracle[k]
                 THEN Ret(PyCreds(fresh, TRUE),
                          [h2 EXCEPT !.minted = @ + 1,
                                     !.tokenFiles[token_path] = TokenDoc(fresh, TRUE)])
                 ELSE Ret(PyNone, h2)
        ELSE Ret(creds, h1)

\* A resolver that looks for a token before it looks for the key.
check_auth_oauth_first(account, use_oauth, h, oracle) ==
    LET r == get_oauth_credentials(account, h, oracle)
    IN  IF Truthy(r.ret) THEN r
        ELSE IF use_oauth THEN Ret(PyNone, r.h)
        ELSE LET k == get_api_key(account, r.h)
             IN  IF Truthy(k.ret) THEN k ELSE Ret(PyNone, k.h)

\* A resolver whose token mode falls back to the static key.
check_auth_key_fallback(account, use_oauth, h, oracle) ==
    LET r == get_oauth_credentials(account, h, oracle)
    IN  IF use_oauth /\ Truthy(r.ret) THEN r
        ELSE LET k == get_api_key(account, IF use_oauth THEN r.h ELSE h)
             IN  IF Truthy(k.ret) THEN k ELSE Ret(PyNone, k.h)

check_auth(account, use_oauth, h, oracle) ==
    IF use_oauth
    THEN LET r == get_oauth_credentials(account, h, oracle)
         IN  IF Truthy(r.ret) THEN r ELSE Ret(PyNone, r.h)
    ELSE LET k == get_api_key(account, h)
         IN  IF Truthy(k.ret) THEN k
             ELSE LET r == get_oauth_credentials(account, k.h, oracle)
                  IN  IF Truthy(r.ret) THEN r ELSE Ret(PyNone, r.h)

\* -------------------------------------------------------------- api.py

NoApi == [state |-> "none", account |-> None, use_oauth |-> FALSE,
          api_key |-> PyNone, oauth_creds |-> PyNone, exc |-> "",
          refreshes |-> 0, tokenLoads |-> 0, keyReads |-> 0]

Resolved(account, use_oauth, key, creds, h) ==
    [state |-> "resolved", account |-> account, use_oauth |-> use_oauth,
     api_key |-> key, oauth_creds |-> creds, exc |-> "",
     refreshes |-> h.refreshes, tokenLoads |-> h.tokenLoads,
     keyReads |-> h.keyReads]

Raised(account, use_oauth, key, creds, msg, h) ==
    [state |-> "raised", account |-> account, use_oauth |-> use_oauth,
     api_key |-> key, oauth_creds |-> creds, exc |-> msg,
     refreshes |-> h.refreshes, tokenLoads |-> h.tokenLoads,
     keyReads |-> h.keyReads]

\* The message MapsAPI.__init__ raises with when check_auth found nothing.
NotAuthenticated(use_oauth) ==
    IF use_oauth THEN "Not authenticated with OAuth" ELSE "Not authenticated"

\* MapsAPI.__init__: the client it leaves (or the exception) and the heap.
MapsAPI_init(account, use_oauth, oracle) ==
    IF use_oauth
    THEN LET r == check_auth(account, TRUE, Heap0, oracle)
         IN  IF ~Truthy(r.ret)
             THEN Ret(Raised(account, use_oauth, PyNone, r.ret,
                             "Not authenticated with OAuth", r.h), r.h)
             ELSE Ret(Resolved(account, use_oauth, PyNone, r.ret, r.h), r.h)
    ELSE LET k == check_auth(account, FALSE, Heap0, oracle)
         IN  IF ~Truthy(k.ret)
             THEN LET r == check_auth(account, TRUE, k.h, oracle)
                  IN  IF ~Truthy(r.ret)
                      THEN Ret(Raised(account, use_oauth, k.ret, r.ret,
                                      "Not authenticated", r.h), r.h)
                      ELSE Ret(Resolved(account, use_oauth, k.ret, r.ret, r.h), r.h)
             ELSE Ret(Resolved(account, use_oauth, k.ret, PyNone, k.h), k.h)

\* The application statuses a status-field endpoint treats as success.
SuccessStatuses == {"OK", "ZERO_RESULTS"}

\* A top-level field the JSON body does not have.
Missing == "missing"

\* How the transport can end: requests.get raising ConnectionError or
\* Timeout, raise_for_status raising HTTPError, response.json() raising
\* JSONDecodeError (all RequestException), or a JSON object delivered.
TransportFailures == {"ConnectionError", "Timeout", "HTTPError"}
Transports == TransportFailures \cup {"JSONDecodeError", "ok"}

Statuses == {"OK", "ZERO_RESULTS", "REQUEST_DENIED", Missing}
Messages == {"bad key", Missing}

\* The record of one _make_request. `calls` counts the HTTP calls it
\* issued: the POST of creds.refresh(Request()) and the one requests.get.
NoRequest ==
    [made |-> FALSE, use_user_data_api |-> FALSE, refreshes |-> 0,
     calls |-> 0, sent |-> FALSE, hasKey |-> FALSE, key |-> PyNone,
     hasBearer |-> FALSE, bearer |-> 0,
     transport |-> Missing, parsed |-> FALSE, inspected |-> FALSE,
     status |-> Missing, error_message |-> Missing,
     outcome |-> "none", exc |-> "", exc_status |-> "", exc_message |-> "",
     cause |-> ""]

\* _make_request, lines 56-67: the credential put on the outbound call.
\* creds is self.oauth_creds after the optional in-memory refresh.
inject(creds, api_key) ==
    IF Truthy(creds)
    THEN [hasKey |-> FALSE, key |-> PyNone, hasBearer |-> TRUE, bearer |-> creds.token]
    ELSE [hasKey |-> TRUE, key |-> api_key, hasBearer |-> FALSE, bearer |-> 0]

\* An executor that counts only "OK" as success.
execute_ok_only(use_user_data_api, transport, status, error_message) ==
    IF transport # "ok"
    THEN [parsed |-> transport = "JSONDecodeError", inspected |-> FALSE,
          status |-> Missing, error_message |-> Missing, outcome |-> "raise",
          exc |-> "Request failed", exc_status |-> "", exc_message |-> "",
          cause |-> transport]
    ELSE IF ~use_user_data_api /\ status # "OK"
    THEN [parsed |-> TRUE, inspected |-> TRUE, status |-> status,
          error_message |-> error_message, outcome |-> "raise",
          exc |-> "API Error",
          exc_status |-> IF status = Missing THEN "UNKNOWN_ERROR" ELSE status,
          exc_message |-> IF error_message = Missing THEN "Unknown error"
                          ELSE error_message,
          cause |-> ""]
    ELSE [parsed |-> TRUE, inspected |-> ~use_user_data_api, status |-> status,
          error_message |-> error_message, outcome |-> "return",
          exc |-> "", exc_status |-> "", exc_message |-> "", cause |-> ""]

\* An executor that parses the body before it looks at the HTTP status.
execute_parse_first(use_user_data_api, transport, status, error_message) ==
    IF transport \in {"ConnectionError", "Timeout"}
    THEN [parsed |-> FALSE, inspected |-> FALSE, status |-> Missing,
          error_message |-> Missing, outcome |-> "raise",
          exc |-> "Request failed", exc_status |-> "", exc_message |-> "",
          cause |-> transport]
    ELSE IF transport = "JSONDecodeError"
    THEN [parsed |-> TRUE, inspected |-> FALSE, status |-> Missing,
          error_message |-> Missing, outcome |-> "raise",
          exc |-> "Request failed", exc_status |-> "", exc_message |-> "",
          cause |-> transport]
    ELSE IF ~use_user_data_api /\ status \notin {"OK", "ZERO_RESULTS"}
    THEN [parsed |-> TRUE, inspected |-> TRUE, status |-> status,
          error_message |-> error_message, outcome |-> "raise",
          exc |-> "API Error",
          exc_status |-> IF status = Missing THEN "UNKNOWN_ERROR" ELSE status,
          exc_message |-> IF error_message = Missing THEN "Unknown error"
                          ELSE error_message,
          cause |-> ""]
    ELSE [parsed |-> TRUE, inspected |-> ~use_user_data_api, status |-> status,
          error_message |-> error_message,
          outcome |-> IF transport = "HTTPError" THEN "raise" ELSE "return",
          exc |-> IF transport = "HTTPError" THEN "Request failed" ELSE "",
          exc_status |-> "", exc_message |-> "",
          cause |-> IF transport = "HTTPError" THEN transport ELSE ""]

\* _make_request, lines 69-82: the call, the parse and the classification.
execute(use_user_data_api, transport, status, error_message) ==
    IF transport \in {"ConnectionError", "Timeout", "HTTPError"}
    THEN [parsed |-> FALSE, inspected |-> FALSE, status |-> Missing,
          error_message |-> Missing, outcome |-> "raise",
          exc |-> "Request failed", exc_status |-> "", exc_message |-> "",
          cause |-> transport]
    ELSE IF transport = "JSONDecodeError"
    THEN [parsed |-> TRUE, inspected |-> FALSE, status |-> Missing,
          error_message |-> Missing, outcome |-> "raise",
          exc |-> "Request failed", exc_status |-> "", exc_message |-> "",
          cause |-> transport]
    ELSE IF ~use_user_data_api /\ status \notin SuccessStatuses
    THEN [parsed |-> TRUE, inspected |-> TRUE, status |-> status,
          error_message |-> error_message, outcome |-> "raise",
          exc |-> "API Error",
          exc_status |-> IF status = Missing THEN "UNKNOWN_ERROR" ELSE status,
          exc_message |-> IF error_message = Missing THEN "Unknown error"
                          ELSE error_message,
          cause |-> ""]
    ELSE [parsed |-> TRUE, inspected |-> ~use_user_data_api, status |-> status,
          error_message |-> error_message, outcome |-> "return",
          exc |-> "", exc_status |-> "", exc_message |-> "", cause |-> ""]

\* ---------------------------------------------------------- pagination

\* Largest max_results a caller passes, largest result collection of one
\* page, and the number of pages the remote serves for one query.
MaxResults == 3
MaxPageItems == 3
MaxPages == 3

\* time.sleep(2): the delay before a continuation token is used.
PageDelay == 2

\* Python's s[:m]: the first m elements, or all but the last -m when m < 0.
Slice(s, m) ==
    LET n == IF m >= 0 THEN (IF m < Len(s) THEN m ELSE Len(s))
             ELSE (IF Len(s) + m > 0 THEN Len(s) + m ELSE 0)
    IN  SubSeq(s, 1, n)

\* The result collection of page p when it holds n items.
Items(p, n) == [i \in 1..n |-> <<p, i>>]

\* A response body: has_results says whether it has a "results" field.
Page(p, has_results, n, token) ==
    [has_results |-> has_results,
     results |-> IF has_results THEN Items(p, n) ELSE <<>>,
     next_page_token |-> token]

NoRun == [pc |-> "idle", op |-> "", max_results |-> 0, results |-> <<>>,
          token |-> FALSE, tokens |-> <<>>, pages |-> 0, events |-> <<>>,
          slept |-> 0, fetched |-> <<>>, returned |-> <<>>, error |-> <<>>]

\* An accumulation that puts the newest page in front.
extend_front(results, data, limit) ==
    IF data.has_results THEN Slice(data.results, limit) \o results ELSE results

\* results.extend(data["results"][:limit]) when the body has results.
extend(results, data, limit) ==
    IF data.has_results THEN results \o Slice(data.results, limit) ELSE results

\* A loop condition that only looks at the continuation token.
more_token_only(token, results, max_results) == token

\* The condition of the while loop.
more(token, results, max_results) == token /\ Len(results) < max_results

\* A run that hands back what it has when a page fails.
after_page_keep_partial(r, req, data, limit) ==
    LET results1 == IF req.outcome = "raise" THEN r.results
                    ELSE extend(r.results, data, limit)
        fetched1 == IF req.outcome = "raise" THEN r.fetched
                    ELSE r.fetched \o data.results
        token1 == req.outcome # "raise" /\ data.next_page_token
    IN  IF more(token1, results1, r.max_results)
        THEN [r EXCEPT !.pc = "loop", !.results = results1,
                       !.token = token1, !.tokens = Append(@, token1),
                       !.fetched = fetched1]
        ELSE [r EXCEPT !.pc = "returned", !.results = results1,
                       !.token = token1, !.tokens = Append(@, token1),
                       !.fetched = fetched1,
                       !.returned = Slice(results1, r.max_results)]

\* The run after a page call ended as `req` records: an exception leaves
\* the method and its local results and reaches the caller; a body is
\* accumulated and the loop condition decides between another page and the
\* return.
after_page(r, req, data, limit) ==
    IF req.outcome = "raise"
    THEN [r EXCEPT !.pc = "failed", !.results = <<>>, !.token = FALSE,
                   !.error = <<req.exc, req.exc_status, req.exc_message>>]
    ELSE LET results1 == extend(r.results, data, limit)
             fetched1 == r.fetched \o data.results
         IN  IF more(data.next_page_token, results1, r.max_results)
             THEN [r EXCEPT !.pc = "loop", !.results = results1,
                            !.token = data.next_page_token,
                            !.tokens = Append(@, data.next_page_token),
                            !.fetched = fetched1]
             ELSE [r EXCEPT !.pc = "returned", !.results = results1,
                            !.token = data.next_page_token,
                            !.tokens = Append(@, data.next_page_token),
                            !.fetched = fetched1,
                            !.returned = Slice(results1, r.max_results)]

\* A first step that sleeps before the initial call.
first_call_sleeps(op, max_results) ==
    [NoRun EXCEPT !.op = op, !.max_results = max_results, !.pages = 1,
                  !.events = <<"sleep", "call">>, !.slept = PageDelay]

\* search_places / nearby_search up to and including the initial call.
first_call(op, max_results) ==
    [NoRun EXCEPT !.op = op, !.max_results = max_results, !.pages = 1,
                  !.events = <<"call">>]

\* One turn of the loop up to and including the call: sleep, then call.
follow_up_call(r) ==
    [r EXCEPT !.pages = @ + 1, !.events = @ \o <<"sleep", "call">>,
              !.slept = @ + PageDelay]

\* ------------------------------------------------------------- actions

Init ==
    /\ accountsFile \in {NoAccountsFile,
                        [exists |-> TRUE, json |-> TRUE, doc |-> EmptyDict]}
    /\ keyFiles = [p \in Paths |-> NoFile]
    /\ tokenFiles = [p \in Paths |-> NoTokenFile]
    /\ expiredTokens = {}
    /\ issued = 0
    /\ api = NoApi
    /\ request = NoRequest
    /\ run = NoRun
    /\ writer = [p \in Writers |-> IdleWriter]
    /\ reader = IdleReader
    /\ modes = [kind \in {"key", "token"} |-> [p \in Paths |-> NoMode]]

\* A save that removes the account's token document along the way.
save_api_key_evicts_token(s, api_key, account) ==
    LET acct == IF account = None \/ account = "" THEN "default" ELSE account
    IN  [accountsFile |-> set_default_account(s.accountsFile, acct),
         keyFiles |-> [s.keyFiles EXCEPT ![get_api_key_path(acct)] = api_key],
         tokenFiles |-> [s.tokenFiles EXCEPT ![get_token_path(acct)] = NoTokenFile],
         modes |-> [s.modes EXCEPT !.key[get_api_key_path(acct)] =
                                      ensure_token_permissions(opened(@)),
                                   !.token[get_token_path(acct)] = NoMode]]

\* A save that writes the key document but leaves the registry alone.
save_api_key_unregistered(s, api_key, account) ==
    LET acct == IF account = None \/ account = "" THEN "default" ELSE account
    IN  [accountsFile |-> s.accountsFile,
         keyFiles |-> [s.keyFiles EXCEPT ![get_api_key_path(acct)] = api_key],
         tokenFiles |-> s.tokenFiles,
         modes |-> [s.modes EXCEPT !.key[get_api_key_path(acct)] =
                                      ensure_token_permissions(opened(@))]]

\* auth.save_api_key on the stored documents s: writes the account's key
\* document and registers the account as default.
save_api_key(s, api_key, account) ==
    LET acct == IF account = None \/ account = "" THEN "default" ELSE account
    IN  [accountsFile |-> set_default_account(s.accountsFile, acct),
         keyFiles |-> [s.keyFiles EXCEPT ![get_api_key_path(acct)] = api_key],
         tokenFiles |-> s.tokenFiles,
         modes |-> [s.modes EXCEPT !.key[get_api_key_path(acct)] =
                                      ensure_token_permissions(opened(@))]]

\* auth.authenticate: the user types a key; an empty one is rejected.
authenticate(typed, account) ==
    /\ IF typed = ""
       THEN UNCHANGED <<keyFiles, accountsFile, tokenFiles, modes>>
       ELSE LET s1 == save_api_key([accountsFile |-> accountsFile,
                                    keyFiles |-> keyFiles,
                                    tokenFiles |-> tokenFiles,
                                    modes |-> modes], typed, account)
            IN  /\ keyFiles' = s1.keyFiles
                /\ accountsFile' = s1.accountsFile
                /\ tokenFiles' = s1.tokenFiles
                /\ modes' = s1.modes
    /\ api' = NoApi /\ request' = NoRequest
    /\ UNCHANGED <<expiredTokens, issued, paging, racing>>

\* auth.authenticate_oauth: the browser flow succeeds or fails; with no
\* account given the name is taken from the user's e-mail, else "default".
authenticate_oauth(account, flowOk, email, hasRefresh) ==
    /\ IF ~OAUTH_AVAILABLE \/ ~flowOk
       THEN UNCHANGED <<tokenFiles, accountsFile, issued, modes>>
       ELSE LET acct == IF account = None \/ account = "" THEN email ELSE account
                t == issued + 1
            IN  /\ issued < MaxTokens
                /\ issued' = t
                /\ tokenFiles' = [tokenFiles EXCEPT
                                    ![get_token_path(acct)] = TokenDoc(t, hasRefresh)]
                /\ modes' = [modes EXCEPT !.token[get_token_path(acct)] =
                                             ensure_token_permissions(opened(@))]
                /\ accountsFile' = set_default_account(accountsFile, acct)
    /\ api' = NoApi /\ request' = NoRequest
    /\ UNCHANGED <<keyFiles, expiredTokens, paging, racing>>

\* cli.use: promote an account that is already registered.
use(account_name) ==
    /\ IF ~InSeq(account_name, list_accounts)
       THEN UNCHANGED accountsFile
       ELSE accountsFile' = set_default_account(accountsFile, account_name)
    /\ api' = NoApi /\ request' = NoRequest
    /\ UNCHANGED <<keyFiles, tokenFiles, modes, expiredTokens, issued, paging,
                   racing>>

\* Time passes the expiry of an access token.
TokenExpires(t) ==
    /\ t \in 1..issued
    /\ t \notin expiredTokens
    /\ expiredTokens' = expiredTokens \cup {t}
    /\ UNCHANGED <<accountsFile, keyFiles, tokenFiles, modes, issued, api,
                   request, paging, racing>>

\* The modes after the refresh writes of a resolution: each document it
\* rewrote was opened for writing and then tightened (auth.py:150-152).
written(m, old, new) ==
    [p \in Paths |-> IF new[p] # old[p]
                     THEN ensure_token_permissions(opened(m[p])) ELSE m[p]]

\* A command constructs its client: MapsAPI(account, use_oauth).
NewMapsAPI(account, use_oauth) ==
    \E oracle \in [1..2 -> BOOLEAN] :
        LET r == MapsAPI_init(account, use_oauth, oracle)
        IN  /\ issued + r.h.minted <= MaxTokens
            /\ \A k \in 1..2 : k > r.h.refreshes => oracle[k]
            /\ api' = r.ret
            /\ tokenFiles' = r.h.tokenFiles
            /\ modes' = [modes EXCEPT !.token = written(@, tokenFiles, r.h.tokenFiles)]
            /\ issued' = issued + r.h.minted
            /\ request' = NoRequest
            /\ UNCHANGED <<accountsFile, keyFiles, expiredTokens, paging, racing>>

\* MapsAPI._make_request on the client of the running command: what one
\* call does to the client, the token counter and the call record.
MapsAPI_make_request(use_user_data_api, refreshOk, transport, status, error_message) ==
    /\ api.state = "resolved"
    /\ LET creds == api.oauth_creds
           refresh == Truthy(creds) /\ ~valid(creds)
                      /\ expired(creds) /\ creds.refresh_token
       IN  IF refresh /\ ~refreshOk
           THEN \* creds.refresh raises before the call is built
                /\ transport = "ok" /\ status = Missing /\ error_message = Missing
                /\ request' = [NoRequest EXCEPT !.made = TRUE,
                                  !.use_user_data_api = use_user_data_api,
                                  !.refreshes = 1, !.calls = 1,
                                  !.outcome = "raise",
                                  !.exc = "RefreshError"]
                /\ UNCHANGED <<api, issued>>
           ELSE LET fresh == issued + 1
                    creds1 == IF refresh THEN PyCreds(fresh, TRUE) ELSE creds
                    auth == inject(creds1, api.api_key)
                    res == execute(use_user_data_api, transport, status, error_message)
                IN  /\ refresh => issued < MaxTokens
                    /\ refresh = refreshOk
                    /\ transport # "ok" => status = Missing /\ error_message = Missing
                    /\ api' = [api EXCEPT !.oauth_creds = creds1]
                    /\ issued' = IF refresh THEN fresh ELSE issued
                    /\ request' = [made |-> TRUE,
                                   use_user_data_api |-> use_user_data_api,
                                   refreshes |-> IF refresh THEN 1 ELSE 0,
                                   calls |-> IF refresh THEN 2 ELSE 1,
                                   sent |-> TRUE,
                                   hasKey |-> auth.hasKey, key |-> auth.key,
                                   hasBearer |-> auth.hasBearer, bearer |-> auth.bearer,
                                   transport |-> transport,
                                   parsed |-> res.parsed, inspected |-> res.inspected,
                                   status |-> res.status,
                                   error_message |-> res.error_message,
                                   outcome |-> res.outcome, exc |-> res.exc,
                                   exc_status |-> res.exc_status,
                                   exc_message |-> res.exc_message,
                                   cause |-> res.cause]
    /\ UNCHANGED <<accountsFile, keyFiles, tokenFiles, modes, expiredTokens,
                   racing>>

\* A single-call operation (geocode, place details, ...) of a command.
make_request(use_user_data_api, refreshOk, transport, status, error_message) ==
    /\ MapsAPI_make_request(use_user_data_api, refreshOk, transport, status,
                            error_message)
    /\ UNCHANGED paging

\* Commands of the CLI over every account, up to client construction.
Next ==
    \/ \E k \in Keys \cup {""}, a \in Names \cup {None} : authenticate(k, a)
    \/ \E a \in Names \cup {None}, r \in BOOLEAN :
          \E e \in (IF a = None THEN Names ELSE {"default"}) :
              authenticate_oauth(a, TRUE, e, r)
    \/ authenticate_oauth(None, FALSE, "default", FALSE)
    \/ \E a \in Names : use(a)
    \/ \E t \in 1..MaxTokens : TokenExpires(t)
    \/ \E a \in Names \cup {None}, o \in BOOLEAN : NewMapsAPI(a, o)

Spec == Init /\ [][Next]_vars

\* Commands run without --account, and the requests their client makes.
NextRequest ==
    \/ \E k \in Keys : authenticate(k, None)
    \/ \E r \in BOOLEAN : authenticate_oauth(None, TRUE, "default", r)
    \/ \E t \in 1..MaxTokens : TokenExpires(t)
    \/ \E o \in BOOLEAN : NewMapsAPI(None, o)
    \/ \E u \in BOOLEAN, ok \in BOOLEAN, tr \in Transports,
          st \in Statuses, m \in Messages : make_request(u, ok, tr, st, m)

SpecRequest == Init /\ [][NextRequest]_vars

\* search_places / nearby_search: the initial call and what follows it.
search_begin(op, max_results, transport, status, has_results, n, token) ==
    /\ run.pc \in {"idle", "returned", "failed"}
    /\ MapsAPI_make_request(FALSE, FALSE, transport, status, Missing)
    /\ ~has_results => n = 0
    /\ request'.outcome = "raise" => ~has_results /\ ~token
    /\ MaxPages = 1 => ~token
    /\ run' = after_page(first_call(op, max_results), request',
                         Page(1, has_results, n, token), max_results)

\* One turn of the pagination loop: the delay, the call with the
\* continuation token, the accumulation.
search_next_page(transport, status, has_results, n, token) ==
    /\ run.pc = "loop"
    /\ more(run.token, run.results, run.max_results)
    /\ MapsAPI_make_request(FALSE, FALSE, transport, status, Missing)
    /\ ~has_results => n = 0
    /\ request'.outcome = "raise" => ~has_results /\ ~token
    /\ run.pages + 1 >= MaxPages => ~token
    /\ run' = after_page(follow_up_call(run), request',
                         Page(run.pages + 1, has_results, n, token),
                         run.max_results - Len(run.results))

\* A search command without --account: key setup, client, paginated search.
\* The commands run one after another: none starts while a search is in
\* its loop.
NextPage ==
    \/ run.pc # "loop" /\ \E k \in Keys : authenticate(k, None)
    \/ run.pc # "loop" /\ NewMapsAPI(None, FALSE)
    \/ \E op \in {"search_places", "nearby_search"}, m \in -1..MaxResults,
          tr \in {"ok", "Timeout"}, st \in {"OK", "REQUEST_DENIED"},
          h \in BOOLEAN, n \in 0..MaxPageItems, t \in BOOLEAN :
          search_begin(op, m, tr, st, h, n, t)
    \/ \E tr \in {"ok", "Timeout"}, st \in {"OK", "REQUEST_DENIED"},
          h \in BOOLEAN, n \in 0..MaxPageItems, t \in BOOLEAN :
          search_next_page(tr, st, h, n, t)

SpecPage == Init /\ [][NextPage]_vars

\* A turn of the loop ends: time.sleep(2) returns and requests.get runs with
\* timeout=10, so a run inside the loop takes its next turn.
SpecPageFair ==
    SpecPage
    /\ WF_vars(\E tr \in {"ok", "Timeout"}, st \in {"OK", "REQUEST_DENIED"},
                  h \in BOOLEAN, n \in 0..MaxPageItems, t \in BOOLEAN :
                  search_next_page(tr, st, h, n, t))

\* set_default_account in process p, first part: the document is read.
set_default_account_load(p, account_name) ==
    /\ writer[p].pc = "idle"
    /\ writer' = [writer EXCEPT ![p] = [pc |-> "loaded", name |-> account_name,
                                        loaded |-> accountsFile]]
    /\ UNCHANGED <<accountsFile, keyFiles, tokenFiles, modes, expiredTokens, issued,
                   api, request, paging, reader>>

\* Second part: open(config_path, "w") empties the file.
set_default_account_open(p) ==
    /\ writer[p].pc = "loaded"
    /\ accountsFile' = TruncatedFile
    /\ writer' = [writer EXCEPT ![p].pc = "opened"]
    /\ UNCHANGED <<keyFiles, tokenFiles, modes, expiredTokens, issued, api, request,
                   paging, reader>>

\* Third part: json.dump writes the document built from what was read, the
\* file is closed and the call returns.
set_default_account_dump(p) ==
    /\ writer[p].pc = "opened"
    /\ accountsFile' = overwrite(accountsFile,
                                 set_default_account(writer[p].loaded,
                                                     writer[p].name))
    /\ writer' = [writer EXCEPT ![p] = IdleWriter]
    /\ UNCHANGED <<keyFiles, tokenFiles, modes, expiredTokens, issued, api, request,
                   paging, reader>>

\* cli.accounts, first read: accounts_list = list_accounts().
accounts_list ==
    /\ reader.pc \in {"start", "done"}
    /\ reader' = [pc |-> "listed", accounts |-> list_accounts, default |-> None]
    /\ UNCHANGED <<accountsFile, keyFiles, tokenFiles, modes, expiredTokens, issued,
                   api, request, paging, writer>>

\* cli.accounts, second read: default = get_default_account().
accounts_default ==
    /\ reader.pc = "listed"
    /\ reader' = [reader EXCEPT !.pc = "done", !.default = get_default_account]
    /\ UNCHANGED <<accountsFile, keyFiles, tokenFiles, modes, expiredTokens, issued,
                   api, request, paging, writer>>

\* Processes registering accounts while another one lists them.
NextRace ==
    \/ \E p \in Writers, n \in Names : set_default_account_load(p, n)
    \/ \E p \in Writers : set_default_account_open(p)
    \/ \E p \in Writers : set_default_account_dump(p)
    \/ accounts_list
    \/ accounts_default

SpecRace == Init /\ [][NextRace]_vars

\* Outside the program: a stored key document is damaged (no longer
\* parseable) or removed.
key_file_lost(p, to) ==
    /\ keyFiles[p] # NoFile /\ keyFiles[p] # to
    /\ keyFiles' = [keyFiles EXCEPT ![p] = to]
    /\ modes' = [modes EXCEPT !.key[p] = IF to = NoFile THEN NoMode ELSE @]
    /\ api' = NoApi /\ request' = NoRequest
    /\ UNCHANGED <<accountsFile, tokenFiles, expiredTokens, issued, paging,
                   racing>>

\* Outside the program: a stored token document is damaged or removed.
token_file_lost(p, to) ==
    /\ tokenFiles[p].st # NoFile /\ tokenFiles[p].st # to
    /\ tokenFiles' = [tokenFiles EXCEPT ![p] = [NoTokenFile EXCEPT !.st = to]]
    /\ modes' = [modes EXCEPT !.token[p] = IF to = NoFile THEN NoMode ELSE @]
    /\ api' = NoApi /\ request' = NoRequest
    /\ UNCHANGED <<accountsFile, keyFiles, expiredTokens, issued, paging,
                   racing>>

\* Commands run without --account on credential documents that get damaged
\* or removed behind the program's back.
NextDamage ==
    \/ \E k \in Keys : authenticate(k, None)
    \/ \E r \in BOOLEAN : authenticate_oauth(None, TRUE, "default", r)
    \/ \E t \in 1..MaxTokens : TokenExpires(t)
    \/ \E p \in Paths, to \in {Corrupt, NoFile} : key_file_lost(p, to)
    \/ \E p \in Paths, to \in {Corrupt, NoFile} : token_file_lost(p, to)
    \/ \E a \in {None, "default"}, o \in BOOLEAN : NewMapsAPI(a, o)

SpecDamage == Init /\ [][NextDamage]_vars

\* -------------------------------------------------------------- claims

Accounts == Names \cup {None}

\* The documents a resolution for `account` would read.
KeyDocOf(account) == keyFiles[get_api_key_path(account)]
TokenDocOf(account) == tokenFiles[get_token_path(account)]

HasKey(account) == KeyDocOf(account) \in Keys
HasToken(account) == TokenDocOf(account).st = "ok"
TokenExpired(account) == HasToken(account) /\ TokenDocOf(account).token \in expiredTokens

\* C1: whatever registrations have run, a default account that is set is
\* one of the registered accounts.
C1_DefaultIsRegistered ==
    get_default_account # None => InSeq(get_default_account, list_accounts)

C1_Witness ==
    /\ get_default_account = "default"
    /\ list_accounts = <<"work", "default">>

\* C2: token-mode resolution of an account whose stored token is expired
\* and has no refresh token raises, and leaves the registry, the key
\* documents and the token documents as they were.
C2_ExpiredNoRefreshRaises ==
    [][\A a \in Accounts :
         (TokenExpired(a) /\ ~TokenDocOf(a).refresh_token /\ NewMapsAPI(a, TRUE))
            => (api'.state = "raised" /\ UNCHANGED stored)]_vars

\* C3: a client that was constructed holds exactly one of api_key and
\* oauth_creds; an api_key is the key string stored for the account, and
\* oauth_creds is a token that has not expired when resolution ends.
C3_ExactlyOneCredential ==
    [][\A a \in Accounts, o \in BOOLEAN :
         (api'.state = "resolved" /\ NewMapsAPI(a, o))
            => /\ (api'.api_key # PyNone) # (api'.oauth_creds # PyNone)
               /\ api'.api_key # PyNone
                     => HasKey(a) /\ api'.api_key = PyStr(KeyDocOf(a))
               /\ api'.oauth_creds # PyNone
                     => /\ api'.oauth_creds.kind = "creds"
                        /\ api'.oauth_creds.token \notin expiredTokens']_vars

\* The credential kind the resolution of the current client ended with.
KeySession == api.api_key.kind = "str" /\ api.oauth_creds.kind = "none"
TokenSession == api.api_key.kind = "creds" \/ api.oauth_creds.kind = "creds"

\* C4: every call sent carries the key parameter exactly when the session
\* is a static-key session and the bearer header exactly when it is a
\* token session, never both and never neither.
C4_KeyXorBearer ==
    (request.made /\ request.sent)
        => /\ request.hasKey <=> KeySession
           /\ request.hasBearer <=> TokenSession
           /\ request.hasKey # request.hasBearer

\* C5: with a static key and no token stored, key-or-fallback resolution
\* ends with a key session holding the stored key, and never loads or
\* refreshes a token.
C5_KeyOnlyNoTokenWork ==
    [][\A a \in Accounts :
         (HasKey(a) /\ TokenDocOf(a).st = NoFile /\ NewMapsAPI(a, FALSE))
            => /\ api'.state = "resolved"
               /\ api'.api_key = PyStr(KeyDocOf(a))
               /\ api'.oauth_creds = PyNone
               /\ api'.tokenLoads = 0
               /\ api'.refreshes = 0
               /\ UNCHANGED <<tokenFiles, issued>>]_vars

C5_Witness ==
    /\ api.state = "resolved" /\ ~api.use_oauth
    /\ api.account = "work"
    /\ HasKey("work") /\ TokenDocOf("work").st = NoFile
    /\ api.api_key = PyStr(KeyDocOf("work"))

\* C6: token-mode resolution of an account whose stored token is expired
\* and has a refresh token makes exactly one refresh attempt; when the
\* token endpoint answers it, the client holds a token that is not expired.
C6_OneRefreshThenValid ==
    [][\A a \in Accounts :
         (TokenExpired(a) /\ TokenDocOf(a).refresh_token /\ NewMapsAPI(a, TRUE))
            => /\ api'.refreshes = 1
               /\ issued' # issued
                     => /\ api'.state = "resolved"
                        /\ api'.oauth_creds.kind = "creds"
                        /\ api'.oauth_creds.token = issued'
                        /\ api'.oauth_creds.token \notin expiredTokens']_vars

C6_Witness ==
    /\ api.state = "resolved" /\ api.use_oauth
    /\ api.refreshes = 1
    /\ api.oauth_creds.token = issued
    /\ TokenDocOf(api.account) = TokenDoc(issued, TRUE)
    /\ expiredTokens # {}

\* C7: key-or-fallback resolution with no static key stored ends as token
\* mode would: resolved with a token session in oauth_creds, or raising.
C7_FallbackIsTokenPath ==
    [][\A a \in Accounts :
         (~HasKey(a) /\ NewMapsAPI(a, FALSE))
            => \/ /\ api'.state = "resolved"
                  /\ api'.oauth_creds.kind = "creds"
                  /\ api'.api_key = PyNone
               \/ api'.state = "raised"]_vars

\* C8: token-mode resolution of an account with no token stored raises,
\* key stored or not, and the static key is never read.
C8_TokenModeNoFallback ==
    [][\A a \in Accounts :
         (~HasToken(a) /\ NewMapsAPI(a, TRUE))
            => /\ api'.state = "raised"
               /\ api'.keyReads = 0
               /\ api'.api_key = PyNone /\ api'.oauth_creds = PyNone]_vars

C8_Witness ==
    /\ api.state = "raised" /\ api.use_oauth
    /\ HasKey(api.account) /\ ~HasToken(api.account)

\* C9: on a status-field endpoint whose transport delivered a JSON body,
\* the call returns exactly when the status is OK or ZERO_RESULTS; any
\* other status raises an API error with that status and the message,
\* "Unknown error" when the body has none.
C9_StatusClassification ==
    (request.made /\ request.transport = "ok" /\ ~request.use_user_data_api)
        => /\ request.outcome = "return"
                <=> request.status \in {"OK", "ZERO_RESULTS"}
           /\ request.status \notin {"OK", "ZERO_RESULTS"}
                => /\ request.outcome = "raise"
                   /\ request.exc = "API Error"
                   /\ request.status # Missing
                         => request.exc_status = request.status
                   /\ request.exc_message =
                         IF request.error_message = Missing
                         THEN "Unknown error" ELSE request.error_message

C9_Witness ==
    /\ request.made /\ request.transport = "ok" /\ ~request.use_user_data_api
    /\ request.status = "REQUEST_DENIED" /\ request.error_message = Missing
    /\ request.exc_message = "Unknown error"

\* C10: a connection error, a timeout or an HTTP error status makes the
\* call fail as "Request failed" with that cause; the body is not parsed,
\* no application status is inspected, and nothing is returned.
C10_TransportFailure ==
    (request.made /\ request.transport \in {"ConnectionError", "Timeout", "HTTPError"})
        => /\ request.outcome = "raise"
           /\ request.exc = "Request failed"
           /\ request.cause = request.transport
           /\ ~request.parsed /\ ~request.inspected

C10_Witness ==
    /\ request.made /\ request.transport = "HTTPError"
    /\ request.outcome = "raise" /\ request.hasKey

\* The smaller of two integers.
Min(a, b) == IF a < b THEN a ELSE b

\* The number of items the pages before page p contributed.
FetchedBefore(p) == Cardinality({i \in DOMAIN run.fetched : run.fetched[i][1] < p})

\* C11: a pagination run that succeeds returns exactly min(M, sum(n_i))
\* items, every follow-up page was fetched while the items of the pages
\* before it were fewer than M and the page before it carried a token, and
\* a first page with at least M items or without token is the only page.
C11_Accounting ==
    run.pc = "returned" =>
        /\ Len(run.returned) = Min(run.max_results, Len(run.fetched))
        /\ \A p \in 2..run.pages :
              FetchedBefore(p) < run.max_results /\ run.tokens[p - 1]
        /\ (FetchedBefore(2) >= run.max_results \/ ~run.tokens[1])
              => run.pages = 1


\* C12: a page call that raises, the first or a later one, ends the run as
\* failed with that error: nothing is returned, what was accumulated is
\* gone, and the only thing that follows a failed run is a new run.
C12_AllOrNothing ==
    [][/\ (run' # run /\ request'.outcome = "raise") =>
              /\ run'.pc = "failed"
              /\ run'.returned = <<>> /\ run'.results = <<>>
              /\ run'.error = <<request'.exc, request'.exc_status,
                                request'.exc_message>>
       /\ (run.pc = "failed" /\ run' # run) =>
              run'.pages = 1 /\ Len(run'.events) = 1]_vars

\* A run fails on its second page with an API error after page 1
\* contributed items.
C12_Witness ==
    /\ run.pc = "failed" /\ run.pages = 2 /\ Len(run.fetched) > 0
    /\ run.error[1] = "API Error" /\ run.returned = <<>>

\* C13: a run's calls and delays alternate, starting and ending with a
\* call: one 2-unit delay immediately before each follow-up call and none
\* elsewhere, so k pages cost k-1 delays.
C13_DelayBetweenPages ==
    run.pc # "idle" =>
        /\ Len(run.events) = 2 * run.pages - 1
        /\ \A i \in DOMAIN run.events :
              run.events[i] = IF i % 2 = 1 THEN "call" ELSE "sleep"
        /\ run.slept = PageDelay * (run.pages - 1)

\* A run of three pages has returned.
C13_Witness ==
    /\ run.pc = "returned" /\ run.pages = 3
    /\ run.events = <<"call", "sleep", "call", "sleep", "call">>

\* C14: what a successful run returns is a prefix of the concatenation of
\* the received pages' result collections, in page order and within-page
\* order.
C14_PrefixOfFetched ==
    run.pc = "returned" =>
        /\ Len(run.returned) <= Len(run.fetched)
        /\ run.returned = SubSeq(run.fetched, 1, Len(run.returned))

\* A two-page run returned all of page 1 and a part of page 2.
C14_Witness ==
    /\ run.pc = "returned" /\ run.pages = 2
    /\ Len(run.returned) < Len(run.fetched)
    /\ run.returned[Len(run.returned)][1] = 2

\* How often x occurs in the sequence s.
Count(x, s) == Cardinality({i \in DOMAIN s : s[i] = x})

\* C15: in every registry state and for every name n, a second
\* set_default_account(n) leaves the registry the first one produced; after
\* either call n is listed exactly once and is the default.
C15_SetDefaultIdempotent ==
    \A n \in Names :
        LET f1 == set_default_account(accountsFile, n)
            f2 == set_default_account(f1, n)
        IN  /\ f2 = f1
            /\ Count(n, list_accounts_of(f1)) = 1
            /\ get_default_account_of(f1) = n
            /\ Count(n, list_accounts_of(f2)) = 1
            /\ get_default_account_of(f2) = n

\* Both names are registered and the older one was promoted again, so the
\* calls above run on a registry that already lists n, in front of another.
C15_Witness ==
    /\ list_accounts = <<"default", "work">>
    /\ get_default_account = "default"

\* C16: set_default_account updates the persisted registry atomically: no
\* other process finds the file half written, and a process that reads the
\* accounts list and the default account while a call runs never holds a
\* default that is missing from the list it holds.
C16_AtomicRegistration ==
    /\ accountsFile.exists => accountsFile.json
    /\ reader.pc = "done" =>
          (reader.default = None \/ InSeq(reader.default, reader.accounts))

\* The paths whose document differs between two file systems.
Changed(old, new) == {p \in Paths : old[p] # new[p]}

\* C17: a step that saves or overwrites a key document leaves every token
\* document and every other key document as it was, and a step that saves
\* or refreshes a token document leaves every key document and every other
\* token document as it was.
C17_IndependentStorage ==
    [][/\ keyFiles' # keyFiles =>
              tokenFiles' = tokenFiles
              /\ Cardinality(Changed(keyFiles, keyFiles')) = 1
       /\ tokenFiles' # tokenFiles =>
              keyFiles' = keyFiles
              /\ Cardinality(Changed(tokenFiles, tokenFiles')) = 1
       /\ \A k \in Keys, a \in Names \cup {None} :
              authenticate(k, a) => tokenFiles' = tokenFiles]_vars

\* One account holds both variants and the other account holds a token.
C17_Witness ==
    /\ HasKey("default") /\ HasToken("default")
    /\ HasToken("work")

\* s is an initial segment of t.
IsPrefix(s, t) == Len(s) <= Len(t) /\ s = SubSeq(t, 1, Len(s))

\* C18: list_accounts holds each registered name once, in the order of the
\* first registrations: every step keeps the names listed so far at their
\* positions and adds at most one new name, at the end.
C18_InsertionOrder ==
    [][/\ IsPrefix(list_accounts, list_accounts_of(accountsFile'))
       /\ Len(list_accounts_of(accountsFile')) <= Len(list_accounts) + 1
       /\ \A n \in Names : Count(n, list_accounts_of(accountsFile')) <= 1]_vars

\* "work" was registered first, "default" second, and "work" was promoted
\* again afterwards.
C18_Witness ==
    /\ list_accounts = <<"work", "default">>
    /\ get_default_account = "work"

\* C19: once a set_default_account call has completed, get_default_account
\* never returns None again, and each completed call leaves the name it
\* promoted as what get_default_account returns; None is returned only while
\* no account is registered.
C19_DefaultNeverAbsentAgain ==
    [][/\ get_default_account # None =>
              get_default_account_of(accountsFile') # None
       /\ \A p \in Writers :
              (writer[p].pc = "opened" /\ writer'[p].pc = "idle") =>
                  get_default_account_of(accountsFile') = writer[p].name
       /\ get_default_account_of(accountsFile') = None =>
              list_accounts_of(accountsFile') = <<>>]_vars

\* C20: an explicitly given account name is selected unchanged, registered
\* or not and whatever the registry file holds (so the file plays no part);
\* with no name given the selection is the registry's default, None when
\* there is none; the key document looked up is the selected account's.
C20_ExplicitAccountWins ==
    /\ \A a \in Names :
          /\ select(accountsFile, a) = a
          /\ select(NoAccountsFile, a) = a /\ select(TruncatedFile, a) = a
          /\ get_api_key_path(a) = a
    /\ select(accountsFile, None) = get_default_account
    /\ get_api_key_path(None) =
          IF get_default_account = None THEN Legacy ELSE get_default_account

\* A client was constructed for "work" while only "default" is registered
\* and is the default account.
C20_Witness ==
    /\ api.account = "work" /\ api.state # "none"
    /\ ~InSeq("work", list_accounts)
    /\ get_default_account = "default"

\* C21: one client construction, in either mode and on every path,
\* attempts at most one token refresh; in particular no refresh follows a
\* failed one.
C21_AtMostOneRefresh ==
    api.state # "none" => api.refreshes <= 1

\* C22: a call made through a constructed client never attempts a token
\* refresh, whatever has happened to the token since the construction.
C22_NoRefreshAfterConstruction ==
    request.made => request.refreshes = 0

\* C23: a construction that found a token but failed to refresh it does not
\* end with the error a construction ends with when no credential was ever
\* configured.
C23_StaleIsNotUnconfigured ==
    (api.state = "raised" /\ api.refreshes > 0) =>
        api.exc # NotAuthenticated(api.use_oauth)

\* C24: a construction that meets an unparseable credential document goes
\* on as if the document were absent. With an unparseable key, key mode
\* reads it once, keeps no key and takes the token path, resolving exactly
\* when that path yields a token; with an unparseable token, the token path
\* yields what it yields without the document, and token mode raises the
\* unauthenticated error with no refresh. The documents stay as they are.
C24_UnparseableIsAbsent ==
    [][\A a \in {None, "default"} :
          /\ (KeyDocOf(a) = Corrupt /\ NewMapsAPI(a, FALSE)) =>
                /\ api'.keyReads = 1 /\ api'.tokenLoads >= 1
                /\ api'.api_key.kind # "str"
                /\ api'.state = "raised" => api'.exc = NotAuthenticated(FALSE)
                /\ keyFiles' = keyFiles
          /\ (TokenDocOf(a).st = Corrupt /\ NewMapsAPI(a, TRUE)) =>
                /\ \A oracle \in [1..2 -> BOOLEAN] :
                      get_oauth_credentials(a, Heap0, oracle).ret =
                      get_oauth_credentials(a,
                          [Heap0 EXCEPT !.tokenFiles[get_token_path(a)] = NoTokenFile],
                          oracle).ret
                /\ api'.state = "raised" /\ api'.exc = NotAuthenticated(TRUE)
                /\ api'.refreshes = 0
                /\ tokenFiles' = tokenFiles /\ keyFiles' = keyFiles]_vars

\* Key mode resolved through the token path past an unparseable key.
C24_Witness ==
    /\ KeyDocOf(api.account) = Corrupt
    /\ api.state = "resolved" /\ ~api.use_oauth
    /\ api.keyReads = 1 /\ api.tokenLoads >= 1

\* C25: a single-call operation issues exactly one HTTP call, whether it
\* returns or raises.
C25_ExactlyOneCall ==
    request.made => request.calls = 1

\* C26: every step that writes a credential document leaves it holding the
\* credential written and with owner-only permissions: a key setup the typed
\* key, a token setup the new token, a resolution that refreshed the token
\* it goes on with. A construction whose refreshes all failed leaves the
\* token documents as they were.
C26_WrittenAndOwnerOnly ==
    [][/\ \A p \in Paths :
             /\ keyFiles'[p] # keyFiles[p] =>
                   keyFiles'[p] \in Keys /\ modes'.key[p] = OwnerOnly
             /\ tokenFiles'[p] # tokenFiles[p] =>
                   /\ tokenFiles'[p] = TokenDoc(issued', tokenFiles'[p].refresh_token)
                   /\ issued' = issued + 1
                   /\ modes'.token[p] = OwnerOnly
       /\ \A k \in Keys, a \in Accounts :
             authenticate(k, a) =>
                 /\ keyFiles'[get_api_key_path(IF a = None THEN "default" ELSE a)] = k
                 /\ modes'.key[get_api_key_path(IF a = None THEN "default" ELSE a)]
                        = OwnerOnly
       /\ (api'.state = "resolved" /\ api'.refreshes > 0 /\ api' # api) =>
             \E c \in {api'.api_key, api'.oauth_creds} :
                 /\ c.kind = "creds"
                 /\ tokenFiles'[get_token_path(api'.account)] = TokenDoc(c.token, TRUE)
                 /\ modes'.token[get_token_path(api'.account)] = OwnerOnly
       /\ (api'.state = "raised" /\ api'.refreshes > 0 /\ api' # api) =>
             tokenFiles' = tokenFiles /\ modes' = modes]_vars

\* A construction refreshed the expired token of an account that also has
\* a key document, and both files are owner-only.
C26_Witness ==
    /\ api.state = "resolved" /\ api.refreshes = 1 /\ api.use_oauth
    /\ TokenDocOf(api.account).token = api.oauth_creds.token
    /\ HasKey(api.account)
    /\ modes.key[get_api_key_path(api.account)] = OwnerOnly
    /\ modes.token[get_token_path(api.account)] = OwnerOnly

\* The account holds a credential a resolution can use: a key, or a token
\* that is still valid or carries a refresh token.
Usable(account) ==
    \/ HasKey(account)
    \/ HasToken(account)
       /\ (~TokenExpired(account) \/ TokenDocOf(account).refresh_token)

\* C27: a client construction leaves the account registry as it was and
\* removes no stored credential document, and for a registered account
\* without a usable credential it ends with the unauthenticated error of
\* its mode.
C27_RegistryUntouched ==
    [][api'.state # "none" =>
          /\ accountsFile' = accountsFile
          /\ keyFiles' = keyFiles
          /\ \A p \in Paths :
                tokenFiles[p].st # NoFile => tokenFiles'[p].st # NoFile
          /\ \A a \in {None, "default"} :
                (/\ api'.account = a
                 /\ InSeq(select(accountsFile, a), list_accounts)
                 /\ ~Usable(a)) =>
                    /\ api'.state = "raised"
                    /\ api'.exc = NotAuthenticated(api'.use_oauth)]_vars

\* C28: when a set_default_account call returns after another process has
\* registered a different name during the call (the file, emptied when this
\* call opened it, holds the other one's document) and no call is left
\* running, the default account is this last writer's name and is in the
\* accounts list.
C28_LastWriterWins ==
    [][\A p \in Writers :
          (/\ writer[p].pc = "opened"
           /\ \A q \in Writers : writer'[q].pc = "idle"
           /\ get_default_account # None
           /\ get_default_account # writer[p].name) =>
              /\ get_default_account_of(accountsFile') = writer[p].name
              /\ InSeq(writer[p].name, list_accounts_of(accountsFile'))]_vars

\* Page p added at least one item to the results of the run.
Contributed(p) == \E i \in 1..Len(run.results) : run.results[i][1] = p

\* Every page fetched so far that carried a continuation token added an item.
EveryTokenPageContributes ==
    \A p \in 1..Len(run.tokens) : run.tokens[p] => Contributed(p)

Max(a, b) == IF a > b THEN a ELSE b

\* C29: a pagination run with a non-negative max_results ends, by returning
\* or by failing, once the remote sends a page without continuation token
\* (it does so by page MaxPages at the latest); and as long as every page
\* with a continuation token has added at least one item, the run has
\* fetched at most max(1, max_results) pages.
C29_Terminates ==
    /\ []((run.pc # "idle" /\ run.max_results >= 0
           /\ EveryTokenPageContributes) =>
              run.pages <= Max(1, run.max_results))
    /\ (run.pc = "loop" /\ run.max_results >= 0) ~>
           (run.pc \in {"returned", "failed"})

\* A run for two results returned after two pages of one item each, both
\* with a continuation token, while the remote had more pages to give.
C29_Witness ==
    /\ run.pc = "returned" /\ run.max_results = 2 /\ run.pages = 2
    /\ run.tokens = <<TRUE, TRUE>>
    /\ EveryTokenPageContributes
    /\ run.pages < MaxPages

====
